---- MODULE Spec2Model ----
(***************************************************************************)
(* A model of the skip list of src/skip_list.py: SkipNode objects with     *)
(* per-level forward pointers, the header sentinel, self.level, and the    *)
(* operations search, insert, delete, get_all_items, __len__ and           *)
(* __contains__, each computed the way the code computes it (descent with  *)
(* an update vector, splice loop, unlink loop with break, level shrink).   *)
(*                                                                         *)
(* Objects are named by small integers (their addresses).  An address has  *)
(* no meaning to the program, which only compares references for identity, *)
(* so after every call the heap is kept up to renaming of addresses: the   *)
(* objects the header still reaches are numbered in level-0 order and the  *)
(* unreachable ones (garbage) are dropped.                                 *)
(***************************************************************************)
EXTENDS Integers, Sequences, FiniteSets, TLC

VARIABLES heap, level, ref, lastOp, config, rand, frames

vars == <<heap, level, ref, lastOp, config, rand, frames>>

\* ---------------------------------------------------------------- bounds
\* Keys are 1..MaxKey.
MaxKey == 3

\* SkipList(max_level=...): the constructor argument of the modelled container.
max_level == 2

\* SkipList(p=0.5): the default promotion probability, in hundredths.
DefaultP == 50

Keys == 1..MaxKey

\* Python's None: the absent forward link, the header's key and value, the
\* not-found result of search, and also a value a caller may store.  Keys,
\* values and addresses are all integers here, and None is one more integer.
None == -1

\* The values the callers store (value: Any): None and two other objects.
Values == {None, 101, 102}

\* Addresses of SkipNode objects; the header is object 0.
header == 0

NodeIds == 1..(MaxKey + 1)

\* ------------------------------------------------------------- SkipNode
\* A slip in the constructor of a node: [None] * level, one slot short.
SkipNodeOneSlotShort(key, value, lvl) ==
    [key |-> key, value |-> value, forward |-> [i \in 0..(lvl - 1) |-> None]]

\* SkipNode(key, value, level): level + 1 forward pointers, all None.
SkipNode(key, value, lvl) ==
    [key |-> key, value |-> value, forward |-> [i \in 0..lvl |-> None]]

\* A slip in the comparison: the descent also passes a node with the same key.
KeyLessOrEqual(a, b) == a <= b

\* A slip in the comparison: the descent passes the larger keys.
KeyGreater(a, b) == a > b

\* The comparison of the descent loops: current.forward[i].key < key.
KeyLess(a, b) == a < b

\* A slip in the equality test: "not smaller" taken for "equal".
KeyNotLess(a, b) == ~(a < b)

\* The equality test after the descent: current.key == key.
KeyEq(a, b) == a = b

\* ---------------------------------------------------------------- descent
\* while current.forward[i] and current.forward[i].key < key:
\*     current = current.forward[i]
RECURSIVE Advance(_, _, _, _)
Advance(h, current, i, key) ==
    LET nxt == h[current].forward[i]
    IN  IF nxt # None /\ KeyLess(h[nxt].key, key)
        THEN Advance(h, nxt, i, key)
        ELSE current

\* A slip in the descent: update[i] = current placed before the while loop,
\* so that the node where the level started is recorded.
RECURSIVE DescendRecordsStart(_, _, _, _, _)
DescendRecordsStart(h, current, i, key, update) ==
    IF i < 0
    THEN [current |-> current, update |-> update]
    ELSE DescendRecordsStart(h, Advance(h, current, i, key), i - 1, key,
                             [update EXCEPT ![i] = current])

\* for i in range(self.level, -1, -1): <advance>; update[i] = current
\* The descent goes on at level i-1 from the node where level i stopped.
RECURSIVE Descend(_, _, _, _, _)
Descend(h, current, i, key, update) ==
    IF i < 0
    THEN [current |-> current, update |-> update]
    ELSE LET c == Advance(h, current, i, key)
         IN  Descend(h, c, i - 1, key, [update EXCEPT ![i] = c])

\* update = [None] * (self.max_level + 1)
EmptyUpdate == [i \in 0..max_level |-> None]

\* The node right after the level-0 predecessor: current = current.forward[0].
Candidate(h, lvl, key) ==
    h[Descend(h, header, lvl, key, EmptyUpdate).current].forward[0]

\* The number of times the inner while loop runs "current = current.forward[i]"
\* at level i, from current.
RECURSIVE AdvanceCount(_, _, _, _)
AdvanceCount(h, current, i, key) ==
    LET nxt == h[current].forward[i]
    IN  IF nxt # None /\ KeyLess(h[nxt].key, key)
        THEN 1 + AdvanceCount(h, nxt, i, key)
        ELSE 0

\* The number of forward advances of the whole descent from level i down.
RECURSIVE DescendAdvances(_, _, _, _)
DescendAdvances(h, current, i, key) ==
    IF i < 0
    THEN 0
    ELSE AdvanceCount(h, current, i, key)
         + DescendAdvances(h, Advance(h, current, i, key), i - 1, key)

\* The forward advances of a search: those of the descent, and the step
\* current = current.forward[0] after it when it lands on an entry.
SearchAdvances(h, lvl, key) ==
    DescendAdvances(h, header, lvl, key)
    + (IF Candidate(h, lvl, key) # None THEN 1 ELSE 0)

\* A slip in the test after the descent: "if current:", the key not compared.
FoundNextNode(h, lvl, key) == Candidate(h, lvl, key) # None

\* if current and current.key == key
Found(h, lvl, key) ==
    LET c == Candidate(h, lvl, key)
    IN  c # None /\ KeyEq(h[c].key, key)

\* ----------------------------------------------------------------- search
search(h, lvl, key) ==
    IF Found(h, lvl, key) THEN h[Candidate(h, lvl, key)].value ELSE None

\* __contains__: return self.search(key) is not None
contains(h, lvl, key) == search(h, lvl, key) # None

\* ------------------------------------------------------------ enumeration
\* The walk of get_all_items: (key, value) of every node of the level-0 chain.
RECURSIVE ItemsFrom(_, _)
ItemsFrom(h, current) ==
    IF current = None
    THEN <<>>
    ELSE <<<<h[current].key, h[current].value>>>>
         \o ItemsFrom(h, h[current].forward[0])

get_all_items(h) == ItemsFrom(h, h[header].forward[0])

\* The walk of __len__: count the nodes of the level-0 chain.
RECURSIVE CountFrom(_, _)
CountFrom(h, current) ==
    IF current = None THEN 0 ELSE 1 + CountFrom(h, h[current].forward[0])

len(h) == CountFrom(h, h[header].forward[0])

\* The walk of display at level i: the keys met along forward[i].
RECURSIVE KeysFrom(_, _, _)
KeysFrom(h, node, i) ==
    IF node = None
    THEN <<>>
    ELSE <<h[node].key>> \o KeysFrom(h, h[node].forward[i], i)

LevelKeys(h, i) == KeysFrom(h, h[header].forward[i], i)

\* ----------------------------------------------------------- random_level
\* The outcomes of the calls of random.random(): trials[j] is TRUE when the
\* j-th draw is below p.  With 0 < p < 1 every sequence of outcomes can happen.
Trials == [1..(max_level + 1) -> BOOLEAN]

\* A slip in the loop condition: level <= self.max_level.
RECURSIVE RandomLoopOffByOne(_, _, _)
RandomLoopOffByOne(trials, lvl, draws) ==
    IF trials[draws + 1] /\ lvl <= max_level
    THEN RandomLoopOffByOne(trials, lvl + 1, draws + 1)
    ELSE [level |-> lvl, draws |-> draws + 1]

\* level = 0; while random.random() < self.p and level < self.max_level: level += 1
\* Every evaluation of the loop condition draws once (the draw comes first).
RECURSIVE RandomLoop(_, _, _)
RandomLoop(trials, lvl, draws) ==
    IF trials[draws + 1] /\ lvl < max_level
    THEN RandomLoop(trials, lvl + 1, draws + 1)
    ELSE [level |-> lvl, draws |-> draws + 1]

random_level(trials) == RandomLoop(trials, 0, 0).level

\* ----------------------------------------------------------------- insert
\* The address of a newly created object: one that no live object has.
Fresh(h) ==
    CHOOSE n \in NodeIds :
        /\ n \notin DOMAIN h
        /\ \A m \in NodeIds : m \notin DOMAIN h => n <= m

\* A slip in insert: the loop that sets update[i] = self.header for the new
\* levels left out.
RaiseUpdateSkipped(update, lvl, new_level) == update

\* if new_level > self.level:
\*     for i in range(self.level + 1, new_level + 1): update[i] = self.header
RaiseUpdate(update, lvl, new_level) ==
    [i \in 0..max_level |->
        IF lvl + 1 <= i /\ i <= new_level THEN header ELSE update[i]]

\* ... self.level = new_level (only when new_level > self.level)
RaisedLevel(lvl, new_level) == IF new_level > lvl THEN new_level ELSE lvl

\* A slip in the splice: "for i in range(new_level)", the top level of the new
\* node left unlinked.
RECURSIVE SpliceBelowNewLevel(_, _, _, _, _)
SpliceBelowNewLevel(h, update, node, i, new_level) ==
    IF i >= new_level
    THEN h
    ELSE SpliceBelowNewLevel(
             [h EXCEPT ![node].forward[i] = h[update[i]].forward[i],
                       ![update[i]].forward[i] = node],
             update, node, i + 1, new_level)

\* A slip in the splice: the two assignments in the other order, so that the
\* new node takes its own address as its forward pointer.
RECURSIVE SpliceAssignmentsSwapped(_, _, _, _, _)
SpliceAssignmentsSwapped(h, update, node, i, new_level) ==
    IF i > new_level
    THEN h
    ELSE SpliceAssignmentsSwapped(
             [h EXCEPT ![update[i]].forward[i] = node,
                       ![node].forward[i] = node],
             update, node, i + 1, new_level)

\* for i in range(new_level + 1):
\*     new_node.forward[i] = update[i].forward[i]
\*     update[i].forward[i] = new_node
RECURSIVE Splice(_, _, _, _, _)
Splice(h, update, node, i, new_level) ==
    IF i > new_level
    THEN h
    ELSE Splice([h EXCEPT ![node].forward[i] = h[update[i]].forward[i],
                          ![update[i]].forward[i] = node],
                update, node, i + 1, new_level)

\* A slip in the replace branch: the new value is not stored.
ReplaceValueKeepsOld(h, lvl, key, value) == h

\* A slip in the replace branch: the value is stored in the level-0
\* predecessor (current not moved to current.forward[0]).
ReplaceValueAtPredecessor(h, lvl, key, value) ==
    [h EXCEPT ![Descend(h, header, lvl, key, EmptyUpdate).current].value = value]

\* The branch of insert taken when the key is present: current.value = value.
ReplaceValue(h, lvl, key, value) ==
    [h EXCEPT ![Candidate(h, lvl, key)].value = value]

\* The branch of insert taken when the key is absent, for the sampled level.
InsertNew(h, lvl, key, value, new_level) ==
    LET d      == Descend(h, header, lvl, key, EmptyUpdate)
        update == RaiseUpdate(d.update, lvl, new_level)
        node   == Fresh(h)
        h1     == (node :> SkipNode(key, value, new_level)) @@ h
    IN  Splice(h1, update, node, 0, new_level)

\* ----------------------------------------------------------------- delete
\* A slip in delete: the node is unlinked from level 0 only.
UnlinkLevel0Only(h, update, current, i, lvl) ==
    [h EXCEPT ![update[0]].forward[0] = h[current].forward[0]]

\* A slip in delete: the test of the break inverted, so that the loop stops at
\* level 0, where the predecessor does point at the node.
UnlinkBreakInverted(h, update, current, i, lvl) == h

\* for i in range(self.level + 1):
\*     if update[i].forward[i] != current: break
\*     update[i].forward[i] = current.forward[i]
RECURSIVE Unlink(_, _, _, _, _)
Unlink(h, update, current, i, lvl) ==
    IF i > lvl
    THEN h
    ELSE IF h[update[i]].forward[i] # current
         THEN h
         ELSE Unlink([h EXCEPT ![update[i]].forward[i] = h[current].forward[i]],
                     update, current, i + 1, lvl)

\* A slip in delete: self.level is not lowered.
ShrinkNever(h, lvl) == lvl

\* A slip in delete: "if" for "while", self.level lowered by one at most.
ShrinkOnce(h, lvl) ==
    IF lvl > 0 /\ h[header].forward[lvl] = None THEN lvl - 1 ELSE lvl

\* while self.level > 0 and self.header.forward[self.level] is None:
\*     self.level -= 1
RECURSIVE Shrink(_, _)
Shrink(h, lvl) ==
    IF lvl > 0 /\ h[header].forward[lvl] = None
    THEN Shrink(h, lvl - 1)
    ELSE lvl

\* delete(key): the heap and self.level it leaves and the value it returns.
delete(h, lvl, key) ==
    IF Found(h, lvl, key)
    THEN LET d  == Descend(h, header, lvl, key, EmptyUpdate)
             h1 == Unlink(h, d.update, Candidate(h, lvl, key), 0, lvl)
         IN  [heap |-> h1, level |-> Shrink(h1, lvl), ret |-> TRUE]
    ELSE [heap |-> h, level |-> lvl, ret |-> FALSE]

\* ------------------------------------------------- addresses and garbage
\* The objects reachable from the objects of S along forward pointers.
RECURSIVE Reachable(_, _)
Reachable(h, S) ==
    LET T == S \cup (UNION {{h[n].forward[i] : i \in DOMAIN h[n].forward} : n \in S}
                     \ {None})
    IN  IF T = S THEN S ELSE Reachable(h, T)

\* The addresses along forward[i] from node, each once.
RECURSIVE ChainFrom(_, _, _, _)
ChainFrom(h, node, i, seen) ==
    IF node = None \/ node \in seen
    THEN <<>>
    ELSE <<node>> \o ChainFrom(h, h[node].forward[i], i, seen \cup {node})

\* The addresses of S in increasing order.
RECURSIVE Sorted(_)
Sorted(S) ==
    IF S = {}
    THEN <<>>
    ELSE LET m == CHOOSE x \in S : \A y \in S : x <= y
         IN  <<m>> \o Sorted(S \ {m})

Range(seq) == {seq[j] : j \in 1..Len(seq)}

\* The heap up to renaming of addresses: the objects the header reaches, those
\* of the level-0 chain numbered 1, 2, ... in chain order and any other after
\* them; what the header does not reach is garbage and is dropped.
Compact(h) ==
    LET chain == ChainFrom(h, h[header].forward[0], 0, {header})
        rest  == Reachable(h, {header}) \ (Range(chain) \cup {header})
        order == chain \o Sorted(rest)
        new(x) == IF x = None \/ x = header
                  THEN x
                  ELSE CHOOSE j \in 1..Len(order) : order[j] = x
        old(m) == IF m = header THEN header ELSE order[m]
    IN  [m \in {header} \cup (1..Len(order)) |->
            [key     |-> h[old(m)].key,
             value   |-> h[old(m)].value,
             forward |-> [i \in DOMAIN h[old(m)].forward |->
                            new(h[old(m)].forward[i])]]]

\* ------------------------------------------------------------------ state
\* heap   : the SkipNode objects, by address; heap[header] is self.header
\* level  : self.level
\* ref    : the dict a caller keeps beside the container, driven by the same
\*          calls (the inserted_keys of the tests)
\* lastOp : the call that has just returned: its arguments, what it returned
\*          and the number of random draws it made; "idle" once the caller
\*          has taken the result and is about to make the next call
\* config : self.max_level and self.p (p in hundredths)
\* rand   : the random source when it is seeded: the outcomes random.random()
\*          gives (TRUE: below p) and how many of them have been drawn; the
\*          empty stream stands for the unseeded source, any outcome possible
\* frames : the calls in progress when a call is followed write by write: for
\*          each thread the locals of its call (update, current, i, new_node)
\*          and the place it has reached; empty where calls are taken whole

\* A call that returned normally; raised names the exception of one that
\* did not.
Call(op, key, value, ret, draws) ==
    [op |-> op, key |-> key, value |-> value, ret |-> ret, draws |-> draws,
     raised |-> "no"]

\* No call is followed write by write.
NoFrames == <<>>

\* The unseeded random source.
Unseeded == [seq |-> <<>>, pos |-> 0]

\* SkipList.__init__: header = SkipNode(None, None, max_level); level = 0.
Init ==
    /\ heap = (header :> SkipNode(None, None, max_level))
    /\ level = 0
    /\ ref = <<>>
    /\ lastOp = Call("init", None, None, None, 0)
    /\ config = [max_level |-> max_level, p |-> DefaultP]
    /\ rand = Unseeded
    /\ frames = NoFrames

\* The caller's dict after d[key] = value.
RefPut(d, key, value) ==
    [k \in DOMAIN d \cup {key} |-> IF k = key THEN value ELSE d[k]]

\* The caller's dict after d.pop(key, None).
RefDel(d, key) == [k \in DOMAIN d \ {key} |-> d[k]]

\* The caller is between two calls (the calls are made one at a time).
Idle == Call("idle", None, None, None, 0)

\* insert(key, value) when the key is present.
InsertExisting(key, value) ==
    /\ lastOp.op = "idle"
    /\ Found(heap, level, key)
    /\ heap' = Compact(ReplaceValue(heap, level, key, value))
    /\ level' = level
    /\ ref' = RefPut(ref, key, value)
    /\ lastOp' = Call("insert", key, value, None, 0)
    /\ UNCHANGED <<config, rand, frames>>

\* insert(key, value) when the key is absent.
InsertAbsent(key, value) ==
    /\ lastOp.op = "idle"
    /\ ~Found(heap, level, key)
    /\ NodeIds \ DOMAIN heap # {}
    /\ \E r \in {RandomLoop(t, 0, 0) : t \in Trials} :
          /\ heap' = Compact(InsertNew(heap, level, key, value, r.level))
          /\ level' = RaisedLevel(level, r.level)
          /\ lastOp' = Call("insert", key, value, None, r.draws)
    /\ ref' = RefPut(ref, key, value)
    /\ UNCHANGED <<config, rand, frames>>

Insert == \E key \in Keys, value \in Values :
              InsertExisting(key, value) \/ InsertAbsent(key, value)

Delete == \E key \in Keys :
    LET r == delete(heap, level, key)
    IN  /\ lastOp.op = "idle"
        /\ heap' = Compact(r.heap)
        /\ level' = r.level
        /\ ref' = RefDel(ref, key)
        /\ lastOp' = Call("delete", key, None, r.ret, 0)
        /\ UNCHANGED <<config, rand, frames>>

\* A slip in search: the descent counts down in self.level itself instead of
\* in the loop variable i, and leaves it at 0.
SearchCountsDownSelfLevel == \E key \in Keys :
    /\ lastOp.op = "idle"
    /\ lastOp' = Call("search", key, None, search(heap, level, key), 0)
    /\ level' = 0
    /\ UNCHANGED <<heap, ref, config, rand, frames>>

Search == \E key \in Keys :
    /\ lastOp.op = "idle"
    /\ lastOp' = Call("search", key, None, search(heap, level, key), 0)
    /\ UNCHANGED <<heap, level, ref, config, rand, frames>>

Contains == \E key \in Keys :
    /\ lastOp.op = "idle"
    /\ lastOp' = Call("contains", key, None, contains(heap, level, key), 0)
    /\ UNCHANGED <<heap, level, ref, config, rand, frames>>

LenCall ==
    /\ lastOp.op = "idle"
    /\ lastOp' = Call("len", None, None, len(heap), 0)
    /\ UNCHANGED <<heap, level, ref, config, rand, frames>>

GetAllItems ==
    /\ lastOp.op = "idle"
    /\ lastOp' = Call("get_all_items", None, None, get_all_items(heap), 0)
    /\ UNCHANGED <<heap, level, ref, config, rand, frames>>

\* The caller takes the result of the call that returned.
Return ==
    /\ lastOp.op # "idle"
    /\ lastOp' = Idle
    /\ UNCHANGED <<heap, level, ref, config, rand, frames>>

Next ==
    \/ Insert
    \/ Delete
    \/ Search
    \/ Contains
    \/ LenCall
    \/ GetAllItems
    \/ Return

Spec == Init /\ [][Next]_vars

\* ------------------------------------------------------- construction
\* The specification of the constructor: SkipList(max_level, p) for arguments
\* inside and outside the documented ranges, and the first calls made of the
\* container it returns.

\* A call that raised exc.
Raised(op, key, exc) ==
    [op |-> op, key |-> key, value |-> None, ret |-> None, draws |-> 0,
     raised |-> exc]

\* The max_level arguments tried: negative, zero and positive.
ConfigLevels == (0 - 2)..max_level

\* The p arguments tried, in hundredths: -0.5, 0, 0.25, 0.5, 1 and 1.5.
ConfigPs == {0 - 50, 0, 25, DefaultP, 100, 150}

\* SkipList.__init__(max_level, p): the fields are assigned as given, nothing
\* is tested and nothing is raised.
SkipListNew(ml, p) ==
    [max_level |-> ml, p |-> p, header |-> SkipNode(None, None, ml),
     level |-> 0, raised |-> "no"]

InitConstruct ==
    \E ml \in ConfigLevels, p \in ConfigPs :
        LET sl == SkipListNew(ml, p)
        IN  /\ heap = (header :> sl.header)
            /\ level = sl.level
            /\ config = [max_level |-> sl.max_level, p |-> sl.p]
            /\ lastOp = [Call("init", None, None, None, 0)
                            EXCEPT !.raised = sl.raised]
            /\ ref = <<>>
            /\ rand = Unseeded
            /\ frames = NoFrames

\* The header of the new container has no slot 0 when max_level < 0
\* ([None] * (max_level + 1) is []): reading self.header.forward[0], the
\* first thing every method does there, raises IndexError.
HeaderHasNoSlot(h) == 0 \notin DOMAIN h[header].forward

\* search(key) on the container as constructed.
SearchNew == \E key \in Keys :
    /\ lastOp.op = "idle"
    /\ lastOp' = IF HeaderHasNoSlot(heap)
                 THEN Raised("search", key, "IndexError")
                 ELSE Call("search", key, None, search(heap, level, key), 0)
    /\ UNCHANGED <<heap, level, ref, config, rand, frames>>

\* delete(key) on the container as constructed.
DeleteNew == \E key \in Keys :
    /\ lastOp.op = "idle"
    /\ lastOp' = IF HeaderHasNoSlot(heap)
                 THEN Raised("delete", key, "IndexError")
                 ELSE Call("delete", key, None, delete(heap, level, key).ret, 0)
    /\ UNCHANGED <<heap, level, ref, config, rand, frames>>

\* len(sl) on the container as constructed.
LenNew ==
    /\ lastOp.op = "idle"
    /\ lastOp' = IF HeaderHasNoSlot(heap)
                 THEN Raised("len", None, "IndexError")
                 ELSE Call("len", None, None, len(heap), 0)
    /\ UNCHANGED <<heap, level, ref, config, rand, frames>>

\* get_all_items() on the container as constructed.
GetAllItemsNew ==
    /\ lastOp.op = "idle"
    /\ lastOp' = IF HeaderHasNoSlot(heap)
                 THEN Raised("get_all_items", None, "IndexError")
                 ELSE Call("get_all_items", None, None, get_all_items(heap), 0)
    /\ UNCHANGED <<heap, level, ref, config, rand, frames>>

NextConstruct ==
    \/ SearchNew
    \/ DeleteNew
    \/ LenNew
    \/ GetAllItemsNew
    \/ Return

SpecConstruct == InitConstruct /\ [][NextConstruct]_vars

\* ------------------------------------------------------ keys of two types
\* The specification of calls with keys of two types: the integer keys and a
\* key of another type (a str, as in test_string_keys).  Python orders two
\* ints and two strs, and raises TypeError for int < str and for str < int.

\* The key of the other type.
StrKey == 1000

AllKeys == Keys \cup {StrKey}

\* The type of a key: str or int.
IsStr(k) == k = StrKey

\* A key type whose < accepts every other key (nothing raises).
ComparableAlways(a, b) == TRUE

\* Whether a < b is defined; it raises TypeError when it is not.
Comparable(a, b) == IsStr(a) <=> IsStr(b)

\* Whether the loop of one level raises: it does at the first comparison of
\* the key with a key it cannot be compared with.
RECURSIVE AdvanceRaises(_, _, _, _)
AdvanceRaises(h, current, i, key) ==
    LET nxt == h[current].forward[i]
    IN  IF nxt = None
        THEN FALSE
        ELSE IF ~Comparable(h[nxt].key, key)
             THEN TRUE
             ELSE IF KeyLess(h[nxt].key, key)
                  THEN AdvanceRaises(h, nxt, i, key)
                  ELSE FALSE

\* Whether the descent from level i raises.
RECURSIVE DescendRaises(_, _, _, _)
DescendRaises(h, current, i, key) ==
    IF i < 0
    THEN FALSE
    ELSE \/ AdvanceRaises(h, current, i, key)
         \/ DescendRaises(h, Advance(h, current, i, key), i - 1, key)

\* A call whose descent raised: the exception leaves the method before any
\* of its writes (the descent assigns the local update and current only).
RaiseTypeError(op, key) ==
    /\ lastOp.op = "idle"
    /\ DescendRaises(heap, header, level, key)
    /\ lastOp' = Raised(op, key, "TypeError")
    /\ UNCHANGED <<heap, level, ref, config, rand, frames>>

InsertAnyKey == \E key \in AllKeys, value \in Values :
    \/ RaiseTypeError("insert", key)
    \/ /\ ~DescendRaises(heap, header, level, key)
       /\ (InsertExisting(key, value) \/ InsertAbsent(key, value))

DeleteAnyKey == \E key \in AllKeys :
    \/ RaiseTypeError("delete", key)
    \/ LET r == delete(heap, level, key)
       IN  /\ ~DescendRaises(heap, header, level, key)
           /\ lastOp.op = "idle"
           /\ heap' = Compact(r.heap)
           /\ level' = r.level
           /\ ref' = RefDel(ref, key)
           /\ lastOp' = Call("delete", key, None, r.ret, 0)
           /\ UNCHANGED <<config, rand, frames>>

SearchAnyKey == \E key \in AllKeys :
    \/ RaiseTypeError("search", key)
    \/ /\ ~DescendRaises(heap, header, level, key)
       /\ lastOp.op = "idle"
       /\ lastOp' = Call("search", key, None, search(heap, level, key), 0)
       /\ UNCHANGED <<heap, level, ref, config, rand, frames>>

NextKeys ==
    \/ InsertAnyKey
    \/ DeleteAnyKey
    \/ SearchAnyKey
    \/ Return

SpecKeys == Init /\ [][NextKeys]_vars

\* ------------------------------------------------------ seeded random source
\* The specification of random_level under a seeded source: the stream of
\* outcomes is fixed at the start (random.seed), and each call of
\* random_level draws from it where the call before stopped.

\* The length of the stream that is modelled: room for two calls, each with
\* one outcome more than a call can draw.
StreamLen == 2 * (max_level + 2)

\* The outcomes still to come: the j-th next draw.
Upcoming(r) == [j \in 1..(Len(r.seq) - r.pos) |-> r.seq[r.pos + j]]

InitRandom ==
    /\ heap = (header :> SkipNode(None, None, max_level))
    /\ level = 0
    /\ ref = <<>>
    /\ lastOp = Call("init", None, None, None, 0)
    /\ config = [max_level |-> max_level, p |-> DefaultP]
    /\ \E seq \in [1..StreamLen -> BOOLEAN] : rand = [seq |-> seq, pos |-> 0]
    /\ frames = NoFrames

\* self.random_level(): the level returned, the draws made, the source moved on.
RandomLevelCall ==
    /\ lastOp.op = "idle"
    /\ Len(rand.seq) - rand.pos >= max_level + 2
    /\ LET r == RandomLoop(Upcoming(rand), 0, 0)
       IN  /\ lastOp' = Call("random_level", None, None, r.level, r.draws)
           /\ rand' = [rand EXCEPT !.pos = @ + r.draws]
    /\ UNCHANGED <<heap, level, ref, config, frames>>

NextRandom ==
    \/ RandomLevelCall
    \/ Return

SpecRandom == InitRandom /\ [][NextRandom]_vars

\* ------------------------------------------------- calls, write by write
\* insert and delete followed through their pointer writes.  A call starts
\* with its descent, taken in one step (it only reads); after it every
\* statement that reads or writes a link or self.level is a step of its own.

\* The value the calls of this part insert.
StepValues == {101}

\* The locals of a call: where it is (pc), its arguments, update, current,
\* the loop variable i, the bound of range(self.level + 1) (top), new_level,
\* new_node (node), what it returns and the exception it raised; overlapped
\* notes, when the call has returned, that another call was in progress.
IdleFrame ==
    [pc |-> "idle", op |-> "none", key |-> None, value |-> None,
     update |-> EmptyUpdate, current |-> None, i |-> 0, top |-> 0,
     new_level |-> 0, node |-> None, ret |-> None, raised |-> "no",
     overlapped |-> FALSE]

\* n.forward[i] can be evaluated: n is an object and has a slot i.
SafeRef(h, n, i) == n # None /\ n \in DOMAIN h /\ i \in DOMAIN h[n].forward

\* The call of frame f ends with the exception that n.forward[i] raises.
RaiseAt(f, h, n, i) ==
    [f EXCEPT !.pc = "return",
              !.raised = IF n = None THEN "AttributeError" ELSE "IndexError"]

\* insert, lines 96-110: the descent, current = current.forward[0] and the
\* test "if current and current.key == key".
InsertBegin(t) == \E key \in Keys, value \in StepValues :
    /\ frames[t].pc = "idle"
    /\ frames' = [frames EXCEPT ![t] =
          [IdleFrame EXCEPT
              !.op = "insert", !.key = key, !.value = value,
              !.update = Descend(heap, header, level, key, EmptyUpdate).update,
              !.current = Candidate(heap, level, key),
              !.pc = IF Found(heap, level, key) THEN "found" ELSE "level"]]
    /\ UNCHANGED <<heap, level, ref, lastOp, config, rand>>

\* current.value = value
SetValue(t) ==
    /\ frames[t].pc = "found"
    /\ heap' = [heap EXCEPT ![frames[t].current].value = frames[t].value]
    /\ frames' = [frames EXCEPT ![t].pc = "return"]
    /\ UNCHANGED <<level, ref, lastOp, config, rand>>

\* new_level = self.random_level(); the update of the header entries and of
\* self.level when new_level > self.level; new_node = SkipNode(...).
ChooseLevel(t) ==
    /\ frames[t].pc = "level"
    /\ NodeIds \ DOMAIN heap # {}
    /\ \E nl \in {random_level(tr) : tr \in Trials} :
          /\ frames' = [frames EXCEPT
                ![t].new_level = nl,
                ![t].update = RaiseUpdate(frames[t].update, level, nl),
                ![t].node = Fresh(heap),
                ![t].i = 0,
                ![t].pc = "link_new"]
          /\ level' = RaisedLevel(level, nl)
          /\ heap' = (Fresh(heap) :> SkipNode(frames[t].key, frames[t].value, nl))
                     @@ heap
    /\ UNCHANGED <<ref, lastOp, config, rand>>

\* new_node.forward[i] = update[i].forward[i]
LinkNew(t) ==
    LET f == frames[t]
    IN  /\ f.pc = "link_new"
        /\ IF ~SafeRef(heap, f.update[f.i], f.i)
           THEN /\ frames' = [frames EXCEPT
                                 ![t] = RaiseAt(f, heap, f.update[f.i], f.i)]
                /\ heap' = heap
           ELSE IF ~SafeRef(heap, f.node, f.i)
           THEN /\ frames' = [frames EXCEPT ![t] = RaiseAt(f, heap, f.node, f.i)]
                /\ heap' = heap
           ELSE /\ heap' = [heap EXCEPT ![f.node].forward[f.i] =
                                           heap[f.update[f.i]].forward[f.i]]
                /\ frames' = [frames EXCEPT ![t].pc = "link_pred"]
        /\ UNCHANGED <<level, ref, lastOp, config, rand>>

\* A slip in the splice: self.header.forward[i] = new_node, whatever the
\* predecessor is.
LinkPredAtHeader(t) ==
    LET f == frames[t]
    IN  /\ f.pc = "link_pred"
        /\ heap' = [heap EXCEPT ![header].forward[f.i] = f.node]
        /\ frames' = [frames EXCEPT
              ![t].i = f.i + 1,
              ![t].pc = IF f.i + 1 > f.new_level THEN "return" ELSE "link_new"]
        /\ UNCHANGED <<level, ref, lastOp, config, rand>>

\* update[i].forward[i] = new_node, and the next i of range(new_level + 1)
LinkPred(t) ==
    LET f == frames[t]
    IN  /\ f.pc = "link_pred"
        /\ heap' = [heap EXCEPT ![f.update[f.i]].forward[f.i] = f.node]
        /\ frames' = [frames EXCEPT
              ![t].i = f.i + 1,
              ![t].pc = IF f.i + 1 > f.new_level THEN "return" ELSE "link_new"]
        /\ UNCHANGED <<level, ref, lastOp, config, rand>>

\* delete, lines 139-151: the descent, current = current.forward[0], the test
\* "if current and current.key == key", and range(self.level + 1) evaluated.
DeleteBegin(t) == \E key \in Keys :
    /\ frames[t].pc = "idle"
    /\ frames' = [frames EXCEPT ![t] =
          [IdleFrame EXCEPT
              !.op = "delete", !.key = key,
              !.update = Descend(heap, header, level, key, EmptyUpdate).update,
              !.current = Candidate(heap, level, key),
              !.top = level,
              !.ret = Found(heap, level, key),
              !.pc = IF Found(heap, level, key) THEN "unlink_test" ELSE "return"]]
    /\ UNCHANGED <<heap, level, ref, lastOp, config, rand>>

\* A slip in the unlink loop: "for i in range(1)", the loop left after level 0.
UnlinkTestLevel0Only(t) ==
    LET f == frames[t]
    IN  /\ f.pc = "unlink_test"
        /\ frames' = [frames EXCEPT ![t] =
              IF f.i > 0
              THEN [f EXCEPT !.pc = "shrink"]
              ELSE [f EXCEPT !.pc = "unlink_write"]]
        /\ UNCHANGED <<heap, level, ref, lastOp, config, rand>>

\* for i in range(self.level + 1): if update[i].forward[i] != current: break
UnlinkTest(t) ==
    LET f == frames[t]
    IN  /\ f.pc = "unlink_test"
        /\ frames' = [frames EXCEPT ![t] =
              IF f.i > f.top
              THEN [f EXCEPT !.pc = "shrink"]
              ELSE IF ~SafeRef(heap, f.update[f.i], f.i)
              THEN RaiseAt(f, heap, f.update[f.i], f.i)
              ELSE IF heap[f.update[f.i]].forward[f.i] # f.current
              THEN [f EXCEPT !.pc = "shrink"]
              ELSE [f EXCEPT !.pc = "unlink_write"]]
        /\ UNCHANGED <<heap, level, ref, lastOp, config, rand>>

\* update[i].forward[i] = current.forward[i]
UnlinkWrite(t) ==
    LET f == frames[t]
    IN  /\ f.pc = "unlink_write"
        /\ IF ~SafeRef(heap, f.current, f.i)
           THEN /\ frames' = [frames EXCEPT
                                 ![t] = RaiseAt(f, heap, f.current, f.i)]
                /\ heap' = heap
           ELSE /\ heap' = [heap EXCEPT ![f.update[f.i]].forward[f.i] =
                                           heap[f.current].forward[f.i]]
                /\ frames' = [frames EXCEPT ![t].i = f.i + 1,
                                            ![t].pc = "unlink_test"]
        /\ UNCHANGED <<level, ref, lastOp, config, rand>>

\* A slip in delete: the loop that lowers self.level left out.
ShrinkStepLeftOut(t) ==
    /\ frames[t].pc = "shrink"
    /\ frames' = [frames EXCEPT ![t].pc = "return"]
    /\ UNCHANGED <<heap, level, ref, lastOp, config, rand>>

\* while self.level > 0 and self.header.forward[self.level] is None:
\*     self.level -= 1
\* one turn of the loop, or its end and "return True".
ShrinkStep(t) ==
    /\ frames[t].pc = "shrink"
    /\ IF level > 0 /\ heap[header].forward[level] = None
       THEN /\ level' = level - 1
            /\ frames' = frames
       ELSE /\ level' = level
            /\ frames' = [frames EXCEPT ![t].pc = "return"]
    /\ UNCHANGED <<heap, ref, lastOp, config, rand>>

\* The caller's dict after the call of frame f has returned.
RefAfter(d, f) ==
    IF f.raised # "no"
    THEN d
    ELSE IF f.op = "insert"
    THEN RefPut(d, f.key, f.value)
    ELSE IF f.op = "delete" /\ f.ret = TRUE
    THEN RefDel(d, f.key)
    ELSE d

\* The call returns to its caller, who makes the next call; the locals are
\* gone, and with them every reference to an unlinked node.
ReturnToCaller(t) ==
    /\ frames[t].pc = "return"
    /\ frames' = [frames EXCEPT ![t] = IdleFrame]
    /\ ref' = RefAfter(ref, frames[t])
    /\ heap' = Compact(heap)
    /\ UNCHANGED <<level, lastOp, config, rand>>

\* The one thread of a program that makes its calls one after the other.
MainThread == "main"

InitSteps ==
    /\ heap = (header :> SkipNode(None, None, max_level))
    /\ level = 0
    /\ ref = <<>>
    /\ lastOp = Call("init", None, None, None, 0)
    /\ config = [max_level |-> max_level, p |-> DefaultP]
    /\ rand = Unseeded
    /\ frames = [t \in {MainThread} |-> IdleFrame]

NextSteps ==
    \/ InsertBegin(MainThread)
    \/ SetValue(MainThread)
    \/ ChooseLevel(MainThread)
    \/ LinkNew(MainThread)
    \/ LinkPred(MainThread)
    \/ DeleteBegin(MainThread)
    \/ UnlinkTest(MainThread)
    \/ UnlinkWrite(MainThread)
    \/ ShrinkStep(MainThread)
    \/ ReturnToCaller(MainThread)

SpecSteps == InitSteps /\ [][NextSteps]_vars

\* ------------------------------------------------------------ two writers
\* Two threads that each make one call of insert or delete on the same
\* container, with no lock: the statements of the two calls interleave.

\* The container after the inserts of the keys of ks, in this order, the
\* key k with the sampled level lv[k].
RECURSIVE Build(_, _, _, _)
Build(h, lvl, ks, lv) ==
    IF ks = <<>>
    THEN [heap |-> h, level |-> lvl]
    ELSE LET k == Head(ks)
         IN  Build(Compact(InsertNew(h, lvl, k, CHOOSE v \in StepValues : TRUE,
                                     lv[k])),
                   RaisedLevel(lvl, lv[k]), Tail(ks), lv)

\* The levels of the nodes the threads meet on: the two lowest.
LowLevels == {0, 1}

\* The containers the threads start on: any keys, each on a low level.
Containers ==
    {Build((header :> SkipNode(None, None, max_level)), 0, Sorted(S), lv) :
        lv \in [Keys -> LowLevels], S \in SUBSET Keys}

\* The caller's dict of the container h.
RefOf(h) ==
    LET items == get_all_items(h)
    IN  [k \in {items[j][1] : j \in 1..Len(items)} |->
            items[CHOOSE j \in 1..Len(items) : items[j][1] = k][2]]

ThreadA == "a"

ThreadB == "b"

Writers == {ThreadA, ThreadB}

InitWriters ==
    /\ \E c \in Containers :
          /\ heap = c.heap
          /\ level = c.level
          /\ ref = RefOf(c.heap)
    /\ lastOp = Call("init", None, None, None, 0)
    /\ config = [max_level |-> max_level, p |-> DefaultP]
    /\ rand = Unseeded
    /\ frames = [t \in Writers |-> IdleFrame]

\* The two threads are as good as each other: of two runs that differ in the
\* names of the threads only, the one where ThreadA has the smaller key.
KeysInOrder(fr) ==
    \/ fr[ThreadA].op = "none"
    \/ fr[ThreadB].op = "none"
    \/ fr[ThreadA].key <= fr[ThreadB].key

\* A thread calls insert with a key it finds absent.
WriterInsert(t) ==
    /\ InsertBegin(t)
    /\ frames'[t].pc = "level"
    /\ KeysInOrder(frames')

\* The level of the new node, when it is a low one.
WriterChooseLevel(t) ==
    /\ ChooseLevel(t)
    /\ frames'[t].new_level \in LowLevels

\* A thread calls delete with a key it finds present.
WriterDelete(t) ==
    /\ DeleteBegin(t)
    /\ frames'[t].pc = "unlink_test"
    /\ KeysInOrder(frames')

\* The call of a thread returns and its locals are gone; the thread makes no
\* other call.  It is noted whether a call of another thread is in progress;
\* when none is, no local refers to an unlinked node any more.
Finish(t) ==
    LET f    == frames[t]
        busy == \E o \in DOMAIN frames \ {t} : frames[o].pc \notin {"idle", "done"}
    IN  /\ f.pc = "return"
        /\ frames' = [frames EXCEPT ![t] =
              [IdleFrame EXCEPT !.pc = "done", !.op = f.op, !.key = f.key,
                                !.value = f.value, !.ret = f.ret,
                                !.raised = f.raised, !.overlapped = busy]]
        /\ ref' = RefAfter(ref, f)
        /\ heap' = IF busy THEN heap ELSE Compact(heap)
        /\ UNCHANGED <<level, lastOp, config, rand>>

NextWriters ==
    \E t \in Writers :
        \/ WriterInsert(t)
        \/ WriterChooseLevel(t)
        \/ LinkNew(t)
        \/ LinkPred(t)
        \/ WriterDelete(t)
        \/ UnlinkTest(t)
        \/ UnlinkWrite(t)
        \/ ShrinkStep(t)
        \/ Finish(t)

SpecWriters == InitWriters /\ [][NextWriters]_vars

\* ------------------------------------------------- a reader and a writer
\* A thread that calls search while another thread is inside one call of
\* insert or delete, with no lock.  The search is followed read by read: the
\* condition "current.forward[i] and current.forward[i].key < key" reads the
\* link twice, and "current = current.forward[i]" reads it a third time.

\* current = self.header; range(self.level, -1, -1) evaluated.
SearchBegin(t) == \E key \in Keys :
    /\ frames[t].pc = "idle"
    /\ frames' = [frames EXCEPT ![t] =
          [IdleFrame EXCEPT !.op = "search", !.key = key, !.current = header,
                            !.top = level, !.i = level, !.pc = "s_check"]]
    /\ UNCHANGED <<heap, level, ref, lastOp, config, rand>>

\* The frame of a search when the while loop of level i has ended: the next
\* i of the range, or the statement after the for loop.
NextLevel(f) ==
    IF f.i = 0 THEN [f EXCEPT !.pc = "s_last"]
               ELSE [f EXCEPT !.i = f.i - 1, !.pc = "s_check"]

\* while current.forward[i] ...: the first read of the link.
ReadCheck(t) ==
    LET f == frames[t]
    IN  /\ f.pc = "s_check"
        /\ frames' = [frames EXCEPT ![t] =
              IF ~SafeRef(heap, f.current, f.i)
              THEN RaiseAt(f, heap, f.current, f.i)
              ELSE IF heap[f.current].forward[f.i] = None
              THEN NextLevel(f)
              ELSE [f EXCEPT !.pc = "s_key"]]
        /\ UNCHANGED <<heap, level, ref, lastOp, config, rand>>

\* ... and current.forward[i].key < key: the second read of the link, and
\* the key of the node it gives (None has no key).
ReadKey(t) ==
    LET f   == frames[t]
        nxt == heap[f.current].forward[f.i]
    IN  /\ f.pc = "s_key"
        /\ frames' = [frames EXCEPT ![t] =
              IF nxt = None
              THEN RaiseAt(f, heap, None, f.i)
              ELSE IF KeyLess(heap[nxt].key, f.key)
              THEN [f EXCEPT !.pc = "s_move"]
              ELSE NextLevel(f)]
        /\ UNCHANGED <<heap, level, ref, lastOp, config, rand>>

\* current = current.forward[i]: the third read of the link.
ReadMove(t) ==
    LET f == frames[t]
    IN  /\ f.pc = "s_move"
        /\ frames' = [frames EXCEPT
              ![t].current = heap[f.current].forward[f.i],
              ![t].pc = "s_check"]
        /\ UNCHANGED <<heap, level, ref, lastOp, config, rand>>

\* A slip in search: "current = current.forward[0]" left out, the key of the
\* predecessor tested.
ReadLastKeepsCurrent(t) ==
    LET f == frames[t]
        c == f.current
    IN  /\ f.pc = "s_last"
        /\ frames' = [frames EXCEPT
              ![t].ret = IF c # header /\ KeyEq(heap[c].key, f.key)
                         THEN heap[c].value ELSE None,
              ![t].pc = "return"]
        /\ UNCHANGED <<heap, level, ref, lastOp, config, rand>>

\* current = current.forward[0]
\* if current and current.key == key: return current.value
\* return None
ReadLast(t) ==
    LET f == frames[t]
        c == heap[f.current].forward[0]
    IN  /\ f.pc = "s_last"
        /\ frames' = [frames EXCEPT
              ![t].current = c,
              ![t].ret = IF c # None /\ KeyEq(heap[c].key, f.key)
                         THEN heap[c].value ELSE None,
              ![t].pc = "return"]
        /\ UNCHANGED <<heap, level, ref, lastOp, config, rand>>

WriterThread == "w"

ReaderThread == "r"

InitReader ==
    /\ \E c \in Containers :
          /\ heap = c.heap
          /\ level = c.level
          /\ ref = RefOf(c.heap)
    /\ lastOp = Call("init", None, None, None, 0)
    /\ config = [max_level |-> max_level, p |-> DefaultP]
    /\ rand = Unseeded
    /\ frames = [t \in {WriterThread, ReaderThread} |-> IdleFrame]

\* The search is for a key other than the key of the writer's call.
OtherKey(fr) ==
    \/ fr[WriterThread].op = "none"
    \/ fr[ReaderThread].op = "none"
    \/ fr[WriterThread].key # fr[ReaderThread].key

\* The writer calls insert with a key that is absent.
WriterInsertOther ==
    /\ InsertBegin(WriterThread)
    /\ frames'[WriterThread].pc = "level"
    /\ OtherKey(frames')

\* The writer calls delete with a key that is present.
WriterDeleteOther ==
    /\ DeleteBegin(WriterThread)
    /\ frames'[WriterThread].pc = "unlink_test"
    /\ OtherKey(frames')

\* The reader calls search.
ReaderSearch ==
    /\ SearchBegin(ReaderThread)
    /\ OtherKey(frames')

NextReader ==
    \/ WriterInsertOther
    \/ WriterChooseLevel(WriterThread)
    \/ LinkNew(WriterThread)
    \/ LinkPred(WriterThread)
    \/ WriterDeleteOther
    \/ UnlinkTest(WriterThread)
    \/ UnlinkWrite(WriterThread)
    \/ ShrinkStep(WriterThread)
    \/ Finish(WriterThread)
    \/ ReaderSearch
    \/ ReadCheck(ReaderThread)
    \/ ReadKey(ReaderThread)
    \/ ReadMove(ReaderThread)
    \/ ReadLast(ReaderThread)
    \/ Finish(ReaderThread)

SpecReader == InitReader /\ [][NextReader]_vars

\* =========================================================== properties

\* The (key, value) pairs of the caller's dict in increasing key order.
RefItems(d) ==
    LET ks == Sorted(DOMAIN d)
    IN  [j \in 1..Len(ks) |-> <<ks[j], d[ks[j]]>>]

StrictlyIncreasing(seq) ==
    \A p, q \in 1..Len(seq) : p < q => seq[p] < seq[q]

\* The nodes of the container (every live object but the header).
Nodes == DOMAIN heap \ {header}

\* ------------------------------------------------------------------- C1
\* C1: after any sequence of insert and delete calls made one at a time, for
\* any outcomes of the random trials, the container agrees with the reference
\* map driven by the same calls: get_all_items() is the map's pairs in
\* increasing key order, len() is the number of keys of the map, and every
\* key of the map is reported as contained (k in sl).
C1_AgreesWithReferenceMap ==
    /\ get_all_items(heap) = RefItems(ref)
    /\ len(heap) = Cardinality(DOMAIN ref)
    /\ \A k \in DOMAIN ref : contains(heap, level, k)

\* What does hold of the reference map: the pairs and the count always agree,
\* and a key of the map is reported as contained unless its value is None.
C1_ItemsAndLenAgree ==
    /\ get_all_items(heap) = RefItems(ref)
    /\ len(heap) = Cardinality(DOMAIN ref)
    /\ \A k \in DOMAIN ref : contains(heap, level, k) <=> ref[k] # None

\* ------------------------------------------------------------------- C2
\* C2: ordering invariant.  After every public operation, at every level i of
\* 0..max_level the keys met along forward[i] from the header are strictly
\* increasing; in particular the keys of get_all_items() are.
C2_Ordering ==
    /\ \A i \in 0..max_level : StrictlyIncreasing(LevelKeys(heap, i))
    /\ StrictlyIncreasing([j \in 1..Len(get_all_items(heap)) |->
                              get_all_items(heap)[j][1]])

\* An insert has just put a key between two others, with two keys on level 1.
C2_Witness ==
    /\ lastOp.op = "insert"
    /\ lastOp.draws > 0
    /\ Len(LevelKeys(heap, 0)) = 3
    /\ LevelKeys(heap, 0)[2] = lastOp.key
    /\ Len(LevelKeys(heap, 1)) >= 2

\* ------------------------------------------------------------------- C3
\* C3: round trip.  In every state reached by inserts and deletes, for every
\* key k whose most recent insert stored v and which has not been deleted
\* since, search(k) returns v; a search call hands that value to its caller.
C3_RoundTrip ==
    /\ \A k \in DOMAIN ref : search(heap, level, k) = ref[k]
    /\ (lastOp.op = "search" /\ lastOp.key \in DOMAIN ref)
          => lastOp.ret = ref[lastOp.key]

\* A search has returned the value of a key whose value was replaced: three
\* keys are stored, and the one searched is not on the top level.
C3_Witness ==
    /\ lastOp.op = "search"
    /\ lastOp.key \in DOMAIN ref
    /\ lastOp.ret = 102
    /\ Cardinality(DOMAIN ref) = 3
    /\ level = 2
    /\ lastOp.key \notin Range(LevelKeys(heap, 2))

\* ------------------------------------------------------------------- C4
\* C4: subset chain.  After every public operation, for every level i >= 1
\* the keys reachable along forward[i] are among those reachable along
\* forward[i-1].
C4_SubsetChain ==
    \A i \in 1..max_level :
        Range(LevelKeys(heap, i)) \subseteq Range(LevelKeys(heap, i - 1))

\* A delete has removed a node and left levels that differ: one key on level
\* 2, two on level 1.
C4_Witness ==
    /\ lastOp.op = "delete"
    /\ lastOp.ret = TRUE
    /\ Len(LevelKeys(heap, 2)) = 1
    /\ Len(LevelKeys(heap, 1)) = 2

\* ------------------------------------------------------------------- C5
\* C5: uniqueness.  After every public operation no key is held by more than
\* one node, on the level-0 chain or on any other level; an insert of a key
\* that is present creates no second node for it.
C5_Uniqueness ==
    /\ \A i \in 0..max_level :
          LET ks == LevelKeys(heap, i)
          IN  \A p, q \in 1..Len(ks) : p # q => ks[p] # ks[q]
    /\ \A m, n \in Nodes : m # n => heap[m].key # heap[n].key
    /\ Cardinality(Nodes) = Cardinality(DOMAIN ref)

\* An insert of a key that was present has returned (it drew no random level).
C5_Witness ==
    /\ lastOp.op = "insert"
    /\ lastOp.draws = 0
    /\ len(heap) >= 2

\* ------------------------------------------------------------------- C6
\* The sequence of pairs without the pair of key k.
RECURSIVE Without(_, _)
Without(items, k) ==
    IF items = <<>>
    THEN <<>>
    ELSE (IF Head(items)[1] = k THEN <<>> ELSE <<Head(items)>>)
         \o Without(Tail(items), k)

\* C6: delete(k) of a key that is present returns True; afterwards search(k)
\* is not-found, len() is one less than before, and the other pairs of
\* get_all_items() are unchanged and in the same order.
C6_DeletePresent ==
    [][\A k \in Keys :
          (lastOp'.op = "delete" /\ lastOp'.key = k /\ k \in DOMAIN ref)
          => /\ lastOp'.ret = TRUE
             /\ search(heap', level', k) = None
             /\ ~contains(heap', level', k)
             /\ len(heap') = len(heap) - 1
             /\ get_all_items(heap') = Without(get_all_items(heap), k)
             /\ Len(get_all_items(heap')) = Len(get_all_items(heap)) - 1]_vars

\* A delete has removed the middle one of three keys, a node of level >= 1.
C6_Witness ==
    /\ lastOp.op = "delete"
    /\ lastOp.ret = TRUE
    /\ lastOp.key = 2
    /\ LevelKeys(heap, 0) = <<1, 3>>
    /\ level >= 1

\* ------------------------------------------------------------------- C7
\* C7: delete(k) of a key that is not present returns False and changes
\* nothing: every forward link, every stored value and self.level are as
\* before the call, and so are len() and get_all_items().
C7_DeleteAbsent ==
    [][\A k \in Keys :
          (lastOp'.op = "delete" /\ lastOp'.key = k /\ k \notin DOMAIN ref)
          => /\ lastOp'.ret = FALSE
             /\ delete(heap, level, k).heap = heap
             /\ heap' = heap
             /\ level' = level
             /\ len(heap') = len(heap)
             /\ get_all_items(heap') = get_all_items(heap)]_vars

\* A delete of an absent key lying between two stored keys has returned False.
C7_Witness ==
    /\ lastOp.op = "delete"
    /\ lastOp.ret = FALSE
    /\ lastOp.key = 2
    /\ LevelKeys(heap, 0) = <<1, 3>>
    /\ level = 2

\* ------------------------------------------------------------------- C8
\* C8: replace semantics.  insert(k, v) of a key that is present changes only
\* the value stored for k: no random level is drawn, no forward link changes,
\* self.level and len() are unchanged and k keeps its place in
\* get_all_items(); the same insert made again leaves the state as it is.
C8_Replace ==
    [][\A k \in Keys, v \in Values :
          (/\ lastOp'.op = "insert"
           /\ lastOp'.key = k
           /\ lastOp'.value = v
           /\ k \in DOMAIN ref)
          => /\ lastOp'.draws = 0
             /\ level' = level
             /\ DOMAIN heap' = DOMAIN heap
             /\ \A n \in DOMAIN heap :
                   /\ heap'[n].forward = heap[n].forward
                   /\ heap'[n].key = heap[n].key
                   /\ heap'[n].value =
                         IF heap[n].key = k THEN v ELSE heap[n].value
             /\ len(heap') = len(heap)
             /\ \A j \in 1..len(heap) :
                   get_all_items(heap')[j][1] = get_all_items(heap)[j][1]
             /\ search(heap', level', k) = v
             /\ (ref[k] = v => heap' = heap)]_vars

\* An insert of a present key has replaced the value of the middle one of
\* three keys.
C8_Witness ==
    /\ lastOp.op = "insert"
    /\ lastOp.draws = 0
    /\ lastOp.key = 2
    /\ lastOp.value = 102
    /\ LevelKeys(heap, 0) = <<1, 2, 3>>

\* ------------------------------------------------------------------- C9
\* C9: membership.  In every reachable state and for every key k, k in sl is
\* True exactly when k has been inserted and not deleted since, that is
\* exactly when k is on the level-0 chain, whatever value is stored for k.
C9_Membership ==
    \A k \in Keys :
        /\ contains(heap, level, k) <=> k \in DOMAIN ref
        /\ contains(heap, level, k) <=> k \in Range(LevelKeys(heap, 0))

\* ------------------------------------------------------------------ C10
\* C10: not-found is a normal result.  In every reachable state, for a key
\* that is not present search returns None and delete returns False, on an
\* empty container and for keys below or above every stored key alike; the
\* descent ends on a node (it never follows an absent link), so that neither
\* call raises.
C10_NotFound ==
    /\ \A k \in Keys \ DOMAIN ref :
          LET d == Descend(heap, header, level, k, EmptyUpdate)
          IN  /\ search(heap, level, k) = None
              /\ delete(heap, level, k).ret = FALSE
              /\ d.current \in DOMAIN heap
              /\ \A i \in 0..level : d.update[i] \in DOMAIN heap
    /\ (lastOp.op = "search" /\ lastOp.key \notin DOMAIN ref)
          => lastOp.ret = None

\* A search for a key above every stored key has returned None.
C10_Witness ==
    /\ lastOp.op = "search"
    /\ lastOp.key \notin DOMAIN ref
    /\ lastOp.ret = None
    /\ DOMAIN ref = {1, 2}
    /\ level = 2

\* ------------------------------------------------------------------ C11
\* C11: empty container.  Right after construction every forward link of the
\* header is absent (one per level 0..max_level), len() is 0,
\* get_all_items() is [], and for every key search is not-found and delete
\* returns False; a read made of the still empty container returns so.
C11_EmptyContainer ==
    /\ lastOp.op = "init"
          => /\ DOMAIN heap[header].forward = 0..max_level
             /\ \A i \in 0..max_level : heap[header].forward[i] = None
             /\ DOMAIN heap = {header}
             /\ level = 0
             /\ len(heap) = 0
             /\ get_all_items(heap) = <<>>
             /\ \A k \in Keys :
                   /\ search(heap, level, k) = None
                   /\ ~contains(heap, level, k)
                   /\ delete(heap, level, k).ret = FALSE
    /\ (ref = <<>> /\ lastOp.op = "search") => lastOp.ret = None
    /\ (ref = <<>> /\ lastOp.op = "len") => lastOp.ret = 0
    /\ (ref = <<>> /\ lastOp.op = "get_all_items") => lastOp.ret = <<>>

\* The container has just been constructed.
C11_Witness ==
    /\ lastOp.op = "init"
    /\ ref = <<>>
    /\ DOMAIN heap = {header}

\* ------------------------------------------------------------------ C12
\* The level of a node: the number of its forward slots less one.
NodeLevel(h, n) == Cardinality(DOMAIN h[n].forward) - 1

\* The largest level of a node of the container, 0 for the empty container.
TopNodeLevel(h) ==
    IF DOMAIN h = {header}
    THEN 0
    ELSE CHOOSE l \in 0..max_level :
            /\ \E n \in DOMAIN h \ {header} : NodeLevel(h, n) = l
            /\ \A n \in DOMAIN h \ {header} : NodeLevel(h, n) <= l

\* C12: top-level invariant.  After every public operation every node's level
\* is in 0..max_level, self.level is the largest level of a node (0 when the
\* container is empty), and header.forward[i] is absent for every
\* i > self.level.
C12_TopLevel ==
    /\ \A n \in Nodes :
          \E l \in 0..max_level : DOMAIN heap[n].forward = 0..l
    /\ level = TopNodeLevel(heap)
    /\ \A i \in 0..max_level : i > level => heap[header].forward[i] = None
    /\ Nodes # {} => heap[header].forward[level] # None

\* A delete has removed the only node of the top level, and nodes are left
\* on a lower level that is not level 0.
C12_Witness ==
    /\ lastOp.op = "delete"
    /\ lastOp.ret = TRUE
    /\ level = 1
    /\ len(heap) = 2
    /\ Len(LevelKeys(heap, 1)) = 1

\* ------------------------------------------------------------------ C13
\* The configurations the documentation excludes: p outside the open
\* interval (0, 1), or max_level <= 0.
InvalidConfiguration(c) == c.max_level <= 0 \/ c.p <= 0 \/ c.p >= 100

\* C13: invalid configuration.  Constructing a SkipList with p outside (0, 1)
\* or with max_level <= 0 fails at construction time: no container is
\* returned, and no failure is left for the first search, delete or len.
C13_InvalidConfigurationRejected ==
    /\ (lastOp.op = "init" /\ InvalidConfiguration(config))
          => lastOp.raised # "no"
    /\ lastOp.op \in {"search", "delete", "len", "get_all_items"}
          => lastOp.raised = "no"

\* ------------------------------------------------------------------ C14
\* C14: incomparable keys.  When insert, search or delete is called with a
\* key that cannot be compared with the keys stored in a non-empty container
\* (a str key where int keys are stored, an int key where the str key is),
\* the call fails with an error at that call and leaves the structure as it
\* was: no forward link, value or top level changes, and the ordering
\* invariant holds afterwards.
C14_IncomparableKeys ==
    [][\A k \in AllKeys :
          (/\ lastOp'.op \in {"insert", "search", "delete"}
           /\ lastOp'.key = k
           /\ ref # <<>>
           /\ \E j \in DOMAIN ref : IsStr(j) # IsStr(k))
          => /\ lastOp'.raised = "TypeError"
             /\ heap' = heap
             /\ level' = level
             /\ get_all_items(heap') = get_all_items(heap)
             /\ \A i \in 0..max_level :
                   StrictlyIncreasing(LevelKeys(heap', i))]_vars

\* An insert of the str key into a container of three int keys has raised.
C14_Witness ==
    /\ lastOp.op = "insert"
    /\ lastOp.raised = "TypeError"
    /\ lastOp.key = StrKey
    /\ LevelKeys(heap, 0) = <<1, 2, 3>>
    /\ level = 2

\* ------------------------------------------------------------------ C15
\* The outcomes the source gave from the first draw of the call that has just
\* returned: the j-th of them.
TrialOfCall(j) == rand.seq[rand.pos - lastOp.draws + j]

\* The number of successful trials before the first failure, among the n
\* outcomes from the first draw of the call on.
LeadingSuccesses(n) ==
    CHOOSE c \in 0..n :
        /\ \A j \in 1..c : TrialOfCall(j)
        /\ c = n \/ ~TrialOfCall(c + 1)

\* C15: random_level returns, for every sequence of trial outcomes, the
\* number of consecutive successful trials before the first failure, capped
\* at max_level: the result is in 0..max_level, it is 0 when the first trial
\* fails, and it is max_level when the first max_level trials all succeed,
\* whatever the trials after them are.
C15_RandomLevel ==
    lastOp.op = "random_level"
       => LET n == max_level + 2
          IN  /\ lastOp.ret \in 0..max_level
              /\ lastOp.ret = IF LeadingSuccesses(n) < max_level
                              THEN LeadingSuccesses(n)
                              ELSE max_level
              /\ ~TrialOfCall(1) => lastOp.ret = 0
              /\ (\A j \in 1..max_level : TrialOfCall(j))
                    => lastOp.ret = max_level
              /\ lastOp.draws <= max_level + 1

\* A call has returned max_level after max_level + 1 successful draws, and
\* the outcome after them, which it did not draw, is a success too.
C15_Witness ==
    /\ lastOp.op = "random_level"
    /\ lastOp.ret = max_level
    /\ lastOp.draws = max_level + 1
    /\ \A j \in 1..(max_level + 2) : TrialOfCall(j)

\* ------------------------------------------------------------------ C16
ReadOnlyOps == {"search", "contains", "len", "get_all_items"}

\* C16: read-only operations have no side effects: every call of search,
\* contains, len and get_all_items, in every reachable state and for every
\* argument, leaves every forward link, every stored key and value, and the
\* current top level unchanged.
C16_ReadOnly ==
    [][lastOp'.op \in ReadOnlyOps
          => /\ heap' = heap
             /\ level' = level
             /\ \A i \in 0..max_level : LevelKeys(heap', i) = LevelKeys(heap, i)
             /\ get_all_items(heap') = get_all_items(heap)]_vars

\* A search that found its key has returned on a container of three entries
\* whose top level is max_level.
C16_Witness ==
    /\ lastOp.op = "search"
    /\ lastOp.ret # None
    /\ level = max_level
    /\ Len(LevelKeys(heap, 0)) = 3

\* ------------------------------------------------------------------ C17
\* The chain along forward[i] from node ends at None without coming to a node
\* a second time.
RECURSIVE EndsAtNone(_, _, _, _)
EndsAtNone(h, node, i, seen) ==
    IF node = None
    THEN TRUE
    ELSE IF node \in seen
         THEN FALSE
         ELSE EndsAtNone(h, h[node].forward[i], i, seen \cup {node})

\* C17: totality: in every state reachable by serialized operations no
\* level's forward chain contains a cycle, the descent of search, insert and
\* delete and the step after it make at most n forward advances for a
\* container of n entries, whatever the key, the walks of len and
\* get_all_items visit n nodes, and the random_level of an insert raises the
\* level at most max_level times and consults the source at most
\* max_level + 1 times even if every trial succeeds: every operation
\* terminates.
C17_Totality ==
    /\ \A i \in 0..max_level :
          EndsAtNone(heap, heap[header].forward[i], i, {header})
    /\ LET n == len(heap)
       IN  /\ \A key \in Keys : SearchAdvances(heap, level, key) <= n
           /\ Len(get_all_items(heap)) = n
           /\ n = Cardinality(DOMAIN ref)
    /\ lastOp.op = "insert"
          => /\ lastOp.draws <= max_level + 1
             /\ lastOp.draws - 1 <= max_level

\* An insert whose random_level had every trial succeed has returned on a
\* container of three entries in which the search of the last key makes as
\* many advances as there are entries.
C17_Witness ==
    /\ lastOp.op = "insert"
    /\ lastOp.draws = max_level + 1
    /\ len(heap) = 3
    /\ \E key \in Keys : SearchAdvances(heap, level, key) = 3

\* ------------------------------------------------------------------ C20
\* after is before with k put in immediately after the last key smaller than
\* k, at the front if there is none.
SplicedIn(before, k, after) ==
    \E j \in 0..Len(before) :
        /\ \A m \in 1..j : before[m] < k
        /\ j < Len(before) => ~(before[j + 1] < k)
        /\ after = SubSeq(before, 1, j) \o <<k>>
                   \o SubSeq(before, j + 1, Len(before))

\* The node of h that holds key k.
NodeOf(h, k) == CHOOSE n \in DOMAIN h \ {header} : h[n].key = k

\* C20: insert splice.  An insert of an absent key k with sampled level L
\* links the new entry at exactly the levels 0..L, at each of them immediately
\* after the last entry with key < k (after the header if there is none), and
\* at no level above L; every other entry is on the same levels, in the same
\* order and with the same value as before; the top level becomes
\* max(old top level, L).
C20_InsertSplice ==
    [][\A k \in Keys :
          (/\ lastOp'.op = "insert"
           /\ lastOp'.key = k
           /\ ~Found(heap, level, k))
          => LET L == lastOp'.draws - 1
             IN  /\ L \in 0..max_level
                 /\ \A i \in 0..L :
                       SplicedIn(LevelKeys(heap, i), k, LevelKeys(heap', i))
                 /\ \A i \in (L + 1)..max_level :
                       LevelKeys(heap', i) = LevelKeys(heap, i)
                 /\ NodeLevel(heap', NodeOf(heap', k)) = L
                 /\ heap'[NodeOf(heap', k)].value = lastOp'.value
                 /\ \A j \in Range(LevelKeys(heap, 0)) :
                       /\ NodeLevel(heap', NodeOf(heap', j))
                             = NodeLevel(heap, NodeOf(heap, j))
                       /\ heap'[NodeOf(heap', j)].value
                             = heap[NodeOf(heap, j)].value
                 /\ level' = IF L > level THEN L ELSE level]_vars

\* An insert of key 2 with sampled level 1 has returned: the entry stands
\* between 1 and 3 on the levels 0 and 1 and not on level 2, the top level.
C20_Witness ==
    /\ lastOp.op = "insert"
    /\ lastOp.key = 2
    /\ lastOp.draws = 2
    /\ level = 2
    /\ LevelKeys(heap, 0) = <<1, 2, 3>>
    /\ LevelKeys(heap, 1) = <<1, 2, 3>>
    /\ LevelKeys(heap, 2) = <<3>>

\* ------------------------------------------------------------------ C21
\* The addresses of the level-i chain of h, in chain order.
LevelChain(h, i) == ChainFrom(h, h[header].forward[i], i, {header})

\* The last node of the level-i chain whose key is smaller than k, the header
\* when there is none.
LastBelow(h, i, k) ==
    LET ch    == LevelChain(h, i)
        below == {j \in 1..Len(ch) : h[ch[j]].key < k}
    IN  IF below = {}
        THEN header
        ELSE ch[CHOOSE j \in below : \A m \in below : m <= j]

\* The place of node n on the level-i chain, 0 for the header.
PlaceOn(h, i, n) ==
    IF n = header
    THEN 0
    ELSE CHOOSE j \in 1..Len(LevelChain(h, i)) : LevelChain(h, i)[j] = n

\* The advances a descent makes at the levels i..0 when at each level it goes
\* on from the node where the level above stopped (above: that node).
RECURSIVE AdvancesFromAbove(_, _, _, _)
AdvancesFromAbove(h, update, i, above) ==
    IF i < 0
    THEN 0
    ELSE PlaceOn(h, i, update[i]) - PlaceOn(h, i, above)
         + AdvancesFromAbove(h, update, i - 1, update[i])

\* The call of frame f has made its descent and has written nothing yet.
AfterDescent(f) ==
    \/ f.pc \in {"found", "level"}
    \/ f.pc = "unlink_test" /\ f.i = 0
    \/ f.pc = "return" /\ f.op = "delete" /\ f.ret = FALSE

\* C21: update vector.  At the end of the descent of insert and delete for
\* the key k, for every level i in 0..self.level, update[i] is the last node
\* of the level-i chain whose key is strictly less than k, or the header when
\* there is none (every update[i] is the header on an empty container or
\* when k is smaller than every key stored); the descent went on at each
\* level from the node where it stopped on the level above, so that its
\* advances are those between the two places and no more.
C21_UpdateVector ==
    LET f == frames[MainThread]
    IN  AfterDescent(f)
           => /\ \A i \in 0..level : f.update[i] = LastBelow(heap, i, f.key)
              /\ \A i \in (level + 1)..max_level : f.update[i] = None
              /\ (\A j \in Range(LevelKeys(heap, 0)) : ~(j < f.key))
                    => \A i \in 0..level : f.update[i] = header
              /\ DescendAdvances(heap, header, level, f.key)
                    = AdvancesFromAbove(heap, f.update, level, header)

\* A delete has made its descent and stopped at a different place on each of
\* three levels: at the header, at a first node and at a second one.
C21_Witness ==
    LET f == frames[MainThread]
    IN  /\ f.op = "delete"
        /\ f.pc = "unlink_test"
        /\ f.i = 0
        /\ level = 2
        /\ f.update[2] = header
        /\ f.update[1] # header
        /\ f.update[0] \notin {header, f.update[1]}

\* ------------------------------------------------------------------ C22
\* The keys of seq without k.
KeysWithout(seq, k) ==
    LET Other(x) == x # k
    IN  SelectSeq(seq, Other)

\* The highest level at which the header of h has a successor, 0 if none.
TopOccupied(h) ==
    LET occ == {i \in 0..max_level : h[header].forward[i] # None}
    IN  IF occ = {} THEN 0 ELSE CHOOSE i \in occ : \A j \in occ : j <= i

\* C22: delete unlink.  Every step of a successful delete(k) but its unlink
\* writes leaves all links alone; an unlink write at level i changes the
\* level-i link of a predecessor of k's node and nothing else, never a link
\* of the removed node, takes k out of level i and leaves every other entry
\* on every level where it was; the unlink loop ends only above the node's
\* own level, when k is on no level any more; and the call returns with the
\* top level lowered to the highest level at which the header still has a
\* successor (0 if none).
C22_DeleteUnlink ==
    [][LET f  == frames[MainThread]
           f2 == frames'[MainThread]
           k  == f.key
           u  == f.update[f.i]
       IN  (f.op = "delete" /\ f.pc \in {"unlink_test", "unlink_write", "shrink"})
              => /\ f.pc # "unlink_write" => heap' = heap
                 /\ f.pc = "unlink_write"
                       => /\ u # f.current
                          /\ u = header \/ heap[u].key < k
                          /\ \A n \in DOMAIN heap \ {u} : heap'[n] = heap[n]
                          /\ heap'[u].key = heap[u].key
                          /\ heap'[u].value = heap[u].value
                          /\ \A j \in DOMAIN heap[u].forward \ {f.i} :
                                heap'[u].forward[j] = heap[u].forward[j]
                          /\ LevelKeys(heap', f.i)
                                = KeysWithout(LevelKeys(heap, f.i), k)
                          /\ Len(LevelKeys(heap', f.i))
                                = Len(LevelKeys(heap, f.i)) - 1
                          /\ \A j \in (0..max_level) \ {f.i} :
                                LevelKeys(heap', j) = LevelKeys(heap, j)
                 /\ (f.pc = "unlink_test" /\ f2.pc = "shrink")
                       => /\ f.i = NodeLevel(heap, f.current) + 1
                          /\ \A j \in 0..max_level :
                                k \notin Range(LevelKeys(heap, j))
                 /\ level' <= level
                 /\ f2.pc = "return"
                       => /\ f2.raised = "no"
                          /\ f2.ret = TRUE
                          /\ level' = TopOccupied(heap')]_vars

\* A delete of the one node of level 2 has returned True: two entries are
\* left and the top level is lowered to 1.
C22_Witness ==
    LET f == frames[MainThread]
    IN  /\ f.op = "delete"
        /\ f.pc = "return"
        /\ f.ret = TRUE
        /\ NodeLevel(heap, f.current) = 2
        /\ level = 1
        /\ len(heap) = 2

\* ------------------------------------------------------------------ C23
\* C23: insert/delete round trip.  In every reachable state, after an insert
\* of an absent key k, with any sampled level (one above the top level
\* included), the delete of k made next returns True and restores the
\* structure exactly: the links of the header and of every remaining entry at
\* every level, and the top level, are what they were before the insert; and
\* a container all of whose entries are deleted is as it was constructed
\* (top level 0, every header link absent).
C23_RoundTrip ==
    [][/\ (lastOp'.op = "insert" /\ lastOp'.draws > 0)
             => LET r == delete(heap', level', lastOp'.key)
                IN  /\ r.ret = TRUE
                    /\ Compact(r.heap) = heap
                    /\ r.level = level
       /\ (lastOp'.op = "delete" /\ get_all_items(heap') = <<>>)
             => /\ level' = 0
                /\ heap' = (header :> SkipNode(None, None, max_level))]_vars

\* An insert of key 2 between two entries of level 0 has sampled the level
\* max_level and raised the top level from 0; the delete of key 2 is to
\* lower it to 0 again.
C23_Witness ==
    /\ lastOp.op = "insert"
    /\ lastOp.key = 2
    /\ lastOp.draws = max_level + 1
    /\ level = max_level
    /\ LevelKeys(heap, 0) = <<1, 2, 3>>
    /\ LevelKeys(heap, 1) = <<2>>
    /\ delete(heap, level, 2).level = 0

\* ------------------------------------------------------------------ C24
\* Every node on the chain along forward[i] from node has a slot i.
RECURSIVE SlotsAlong(_, _, _, _)
SlotsAlong(h, node, i, seen) ==
    IF node = None \/ node \in seen
    THEN TRUE
    ELSE /\ i \in DOMAIN h[node].forward
         /\ SlotsAlong(h, h[node].forward[i], i, seen \cup {node})

\* C24: memory safety of the link arrays.  A node created with level L has
\* exactly L + 1 forward slots and the header max_level + 1; every node
\* reachable at level i has more than i slots; wherever insert or delete is
\* about to read or write update[i].forward[i], update[i] has been set to a
\* node with more than i slots (and new_node and current have a slot i where
\* theirs is used); and no call ends with an IndexError or with the
\* AttributeError of an unset update entry.
C24_MemorySafety ==
    LET f == frames[MainThread]
    IN  /\ DOMAIN heap[header].forward = 0..max_level
        /\ level \in 0..max_level
        /\ \A n \in DOMAIN heap :
              \E L \in 0..max_level : DOMAIN heap[n].forward = 0..L
        /\ \A i \in 0..max_level : SlotsAlong(heap, header, i, {})
        /\ f.pc \in {"link_new", "link_pred"}
              => /\ DOMAIN heap[f.node].forward = 0..f.new_level
                 /\ f.i \in 0..f.new_level
                 /\ SafeRef(heap, f.update[f.i], f.i)
                 /\ SafeRef(heap, f.node, f.i)
        /\ (f.pc = "unlink_test" /\ f.i <= f.top)
              => SafeRef(heap, f.update[f.i], f.i)
        /\ f.pc = "unlink_write"
              => /\ SafeRef(heap, f.update[f.i], f.i)
                 /\ SafeRef(heap, f.current, f.i)
        /\ f.raised = "no"

\* An insert that raises the top level from 1 to 2 is about to read
\* update[2].forward[2]: update[2] was set to the header by the insert itself.
C24_Witness ==
    LET f == frames[MainThread]
    IN  /\ f.pc = "link_new"
        /\ f.i = 2
        /\ f.update[2] = header
        /\ LevelKeys(heap, 1) # <<>>
        /\ LevelKeys(heap, 2) = <<>>
        /\ len(heap) = 3

\* ------------------------------------------------------------------ C25
\* The structural invariants of the container, of the nodes the header
\* reaches: keys strictly increasing along every level, every level among
\* the keys of the level below, each node on exactly the levels 0..its own,
\* and self.level the highest level in use (0 when there is none).
Structure(h, lvl) ==
    /\ \A i \in 0..max_level : StrictlyIncreasing(LevelKeys(h, i))
    /\ \A i \in 1..max_level :
          Range(LevelKeys(h, i)) \subseteq Range(LevelKeys(h, i - 1))
    /\ \A i \in 0..max_level :
          \A n \in Range(LevelChain(h, 0)) :
              n \in Range(LevelChain(h, i)) <=> i <= NodeLevel(h, n)
    /\ \A i \in 1..max_level :
          Range(LevelChain(h, i)) \subseteq Range(LevelChain(h, 0))
    /\ lvl = TopOccupied(h)

\* A delete of a node of level >= 1 has unlinked it from level 0 and not yet
\* from level 1: its key is reachable at level 1 and not at level 0.
C25_Witness ==
    LET f == frames[MainThread]
    IN  /\ f.op = "delete"
        /\ f.pc \in {"unlink_test", "unlink_write"}
        /\ f.i = 1
        /\ f.key \in Range(LevelKeys(heap, 1))
        /\ f.key \notin Range(LevelKeys(heap, 0))
        /\ ~Structure(heap, level)

\* An insert that raises the top level has set self.level and linked nothing
\* yet: self.level exceeds the level of every linked entry.
C25_DuringInsert ==
    LET f == frames[MainThread]
    IN  /\ f.op = "insert"
        /\ f.pc = "link_new"
        /\ f.i = 0
        /\ LevelKeys(heap, 0) # <<>>
        /\ \A n \in Range(LevelChain(heap, 0)) : NodeLevel(heap, n) < level
        /\ ~Structure(heap, level)

\* C25: the structural invariants hold at operation boundaries.  Before a
\* call and when a call returns they all hold, and the entries are those of
\* the caller's dict; between the pointer writes they need not: while a
\* delete is between its unlink at level 0 and its unlink at the node's top
\* level the key is on a higher level and not on level 0, and while an insert
\* that raises the top level has linked nothing, self.level exceeds the level
\* of every linked entry.
C25_BoundariesOnly ==
    LET f == frames[MainThread]
    IN  /\ f.pc \in {"idle", "return"}
           => /\ Structure(heap, level)
              /\ get_all_items(heap) = RefItems(RefAfter(ref, f))
              /\ f.raised = "no"
        /\ (/\ f.op = "delete"
            /\ f.pc \in {"unlink_test", "unlink_write"}
            /\ 1 <= f.i
            /\ f.i <= NodeLevel(heap, f.current))
           => /\ f.key \in Range(LevelKeys(heap, f.i))
              /\ f.key \notin Range(LevelKeys(heap, 0))
              /\ ~Structure(heap, level)
        /\ (/\ f.op = "insert"
            /\ f.pc = "link_new"
            /\ f.i = 0
            /\ f.new_level > TopOccupied(heap))
           => /\ level = f.new_level
              /\ \A n \in Range(LevelChain(heap, 0)) : NodeLevel(heap, n) < level
              /\ ~Structure(heap, level)

\* ------------------------------------------------------------------ C26
\* Every thread is before its call or has returned from it.
AtRest == \A t \in DOMAIN frames : frames[t].pc \in {"idle", "done"}

\* C26: concurrent mutation without external serialization is unsafe.  What
\* holds of two calls of insert or delete made by two threads: when the calls
\* did not overlap (each thread returned while the other was before its call
\* or after it), the invariants hold and the entries are those of the
\* caller's dict once they have returned.  When their statements interleave
\* this fails: a state is reachable after both calls returned in which an
\* inserted key is not reachable at level 0.
C26_SerialCallsOnly ==
    (AtRest /\ \A t \in DOMAIN frames : ~frames[t].overlapped)
       => /\ Structure(heap, level)
          /\ get_all_items(heap) = RefItems(ref)
          /\ \A t \in DOMAIN frames : frames[t].raised = "no"

\* Two inserts of different keys have interleaved and both have returned
\* without an exception: one of the two keys is not reachable at level 0,
\* and the entries are not those of the caller's dict.
C26_Witness ==
    /\ \A t \in Writers :
          /\ frames[t].pc = "done"
          /\ frames[t].op = "insert"
          /\ frames[t].raised = "no"
    /\ frames[ThreadA].key # frames[ThreadB].key
    /\ \E t \in Writers : frames[t].key \notin Range(LevelKeys(heap, 0))
    /\ get_all_items(heap) # RefItems(ref)

\* Two calls have interleaved and both have returned without an exception: a
\* level chain is no longer among the keys of the level below.
C26_SubsetBroken ==
    /\ \A t \in Writers : frames[t].pc = "done" /\ frames[t].raised = "no"
    /\ \E i \in 1..max_level :
          ~(Range(LevelKeys(heap, i)) \subseteq Range(LevelKeys(heap, i - 1)))

\* ------------------------------------------------------------------ C27
\* What a search for k must return when no call changes the entry of k.
Expected(d, k) == IF k \in DOMAIN d THEN d[k] ELSE None

\* The search of the reader has returned what it must.
ReaderRight ==
    LET r == frames[ReaderThread]
    IN  r.raised = "no" /\ r.ret = Expected(ref, r.key)

\* C27: concurrent reading during a single writer's call is unsafe.  What
\* holds of a search for k' and one insert or delete of another key k: a
\* search that did not overlap the writer's call returns the value of k' or
\* not-found as it must, no search returns a value for a key that is absent,
\* and the only exception of a search is the AttributeError.  A search
\* interleaved with the writes of an insert or of a delete can fail: it
\* returns not-found for a key that is present throughout, or it raises an
\* AttributeError at a link that became None between its check and its use.
C27_ReaderAloneOnly ==
    LET r == frames[ReaderThread]
        w == frames[WriterThread]
    IN  r.pc \in {"return", "done"}
           => /\ (r.pc = "done" /\ ~r.overlapped /\ ~w.overlapped)
                    => ReaderRight
              /\ w.op = "none" => ReaderRight
              /\ (r.raised = "no" /\ r.key \notin DOMAIN ref) => r.ret = None
              /\ r.raised \in {"no", "AttributeError"}
              /\ r.raised = "AttributeError" => w.op = "delete"

\* A search interleaved with a delete of another key has returned not-found
\* for a key that the container holds throughout.
C27_Witness ==
    LET r == frames[ReaderThread]
        w == frames[WriterThread]
    IN  /\ r.pc = "done"
        /\ r.raised = "no"
        /\ r.ret = None
        /\ r.key \in DOMAIN ref
        /\ r.key \in Range(LevelKeys(heap, 0))
        /\ w.op = "delete"
        /\ w.key # r.key

\* A search interleaved with a delete of another key has raised an
\* AttributeError: the link it had found set was None when it read it again.
C27_ReaderRaises ==
    LET r == frames[ReaderThread]
        w == frames[WriterThread]
    IN  /\ r.pc = "done"
        /\ r.raised = "AttributeError"
        /\ w.op = "delete"
        /\ w.key # r.key

\* A search interleaved with an insert of another key has returned not-found
\* for a key that the container holds throughout.
C27_DuringInsert ==
    LET r == frames[ReaderThread]
        w == frames[WriterThread]
    IN  /\ r.pc = "done"
        /\ r.raised = "no"
        /\ r.ret = None
        /\ r.key \in DOMAIN ref
        /\ w.op = "insert"
        /\ w.key # r.key

====
